---- MODULE Spec2Model ----
(***************************************************************************)
(* Model of src/3.js: the demo server (server.js part, lines 74-334) with  *)
(* its three JSON files, the session store and the auth rate limiter, and  *)
(* the browser-side store of recopilacion.js (lines 1-72).                  *)
(*                                                                         *)
(* A JavaScript string is a sequence of one-character strings.  A value    *)
(* of a JSON request body is a record tagged by its JavaScript type.       *)
(***************************************************************************)
EXTENDS Integers, Sequences, FiniteSets

(* ------------------------------ bounds -------------------------------- *)

\* Date.now() ranges over 1..MaxClock.
MaxClock == 2

\* Arrays longer than this are not appended to.
MaxLen == 2

(* ----------------------------- strings -------------------------------- *)

Range(s) == {s[i] : i \in 1..Len(s)}

UpperChars == <<"A", "B", "C", "D", "E", "F", "G", "H", "I", "J", "K", "L", "M",
                "N", "O", "P", "Q", "R", "S", "T", "U", "V", "W", "X", "Y", "Z">>
LowerChars == <<"a", "b", "c", "d", "e", "f", "g", "h", "i", "j", "k", "l", "m",
                "n", "o", "p", "q", "r", "s", "t", "u", "v", "w", "x", "y", "z">>
DigitChars == <<"0", "1", "2", "3", "4", "5", "6", "7", "8", "9">>
WhiteSpace == {" ", "\t", "\n"}
UpperSet == Range(UpperChars)
LowerSet == Range(LowerChars)

\* String.prototype.toLowerCase, on one character and on a string.
LowerChar(c) ==
  IF c \in UpperSet
    THEN LowerChars[CHOOSE i \in 1..Len(UpperChars) : UpperChars[i] = c]
    ELSE c
toLowerCase(s) == [i \in 1..Len(s) |-> LowerChar(s[i])]

\* String.prototype.trim.
RECURSIVE trimStart(_)
trimStart(s) ==
  IF s # <<>> /\ Head(s) \in WhiteSpace THEN trimStart(Tail(s)) ELSE s
RECURSIVE trimEnd(_)
trimEnd(s) ==
  IF s # <<>> /\ s[Len(s)] \in WhiteSpace
    THEN trimEnd(SubSeq(s, 1, Len(s) - 1))
    ELSE s
trim(s) == trimEnd(trimStart(s))

\* Number to decimal string.
RECURSIVE Decimal(_)
Decimal(n) ==
  IF n < 10 THEN <<DigitChars[n + 1]>>
            ELSE Decimal(n \div 10) \o <<DigitChars[(n % 10) + 1]>>

\* new Date(t).toISOString(): the instant t written as a string.
toISOString(t) == <<"T">> \o Decimal(t) \o <<"Z">>

(* ---------------------------- JSON values ----------------------------- *)

JUndefined == [t |-> "undefined"]
JNull == [t |-> "null"]
JString(s) == [t |-> "string", s |-> s]
JNumber(n) == [t |-> "number", n |-> n]
\* An object is its set of <<key, value>> members, one per key.
JObject(m) == [t |-> "object", m |-> m]
\* An array is its elements and, being an object, the named properties set
\* on it.
JArray(a, m) == [t |-> "array", a |-> a, m |-> m]

\* JavaScript truthiness, as `||` and `!` use it.
Falsy(v) ==
  \/ v.t \in {"undefined", "null"}
  \/ v.t = "string" /\ v.s = <<>>
  \/ v.t = "number" /\ v.n = 0
\* a || b
OrElse(a, b) == IF Falsy(a) THEN b ELSE a

\* obj.key, undefined when there is no such member.
Get(obj, key) ==
  IF obj.t \in {"object", "array"} /\ \E p \in obj.m : p[1] = key
    THEN (CHOOSE p \in obj.m : p[1] = key)[2]
    ELSE JUndefined

\* obj.key = value
SetMember(obj, key, value) ==
  [obj EXCEPT !.m = {p \in @ : p[1] # key} \cup {<<key, value>>}]

\* String(v); an array is its elements joined by commas.
RECURSIVE String(_)
RECURSIVE Join(_)
Join(a) ==
  IF a = <<>> THEN <<>>
  ELSE LET first == IF Head(a).t \in {"undefined", "null"} THEN <<>>
                    ELSE String(Head(a))
       IN  IF Len(a) = 1 THEN first ELSE first \o <<",">> \o Join(Tail(a))
String(v) ==
  CASE v.t = "string" -> v.s
    [] v.t = "number" -> Decimal(v.n)
    [] v.t = "array" -> Join(v.a)
    [] v.t = "object" -> <<"[", "o", "b", "j", "e", "c", "t", " ",
                           "O", "b", "j", "e", "c", "t", "]">>
    [] v.t = "null" -> <<"n", "u", "l", "l">>
    [] OTHER -> <<"u", "n", "d", "e", "f", "i", "n", "e", "d">>

\* JSON.parse(JSON.stringify(v)): what a value is once written and read back.
\* An undefined member is left out, an undefined element becomes null, and of
\* an array only the elements are written.
RECURSIVE throughJSON(_)
throughJSON(v) ==
  CASE v.t = "object" ->
         JObject({<<p[1], throughJSON(p[2])>> : p \in {q \in v.m : q[2].t # "undefined"}})
    [] v.t = "array" ->
         JArray([i \in 1..Len(v.a) |->
                   IF v.a[i].t = "undefined" THEN JNull ELSE throughJSON(v.a[i])],
                {})
    [] OTHER -> v

\* Whether key names a member of v at any depth.
RECURSIVE HasKey(_, _)
HasKey(v, key) ==
  /\ v.t \in {"object", "array"}
  /\ \/ \E p \in v.m : p[1] = key \/ HasKey(p[2], key)
     \/ v.t = "array" /\ \E i \in 1..Len(v.a) : HasKey(v.a[i], key)

\* Whether the string s is v or occurs as a string anywhere inside v.
RECURSIVE HoldsString(_, _)
HoldsString(v, s) ==
  \/ v.t = "string" /\ v.s = s
  \/ v.t \in {"object", "array"} /\ \E p \in v.m : HoldsString(p[2], s)
  \/ v.t = "array" /\ \E i \in 1..Len(v.a) : HoldsString(v.a[i], s)

(* ------------------------ program constants --------------------------- *)

\* register: shortest username, shortest password, longest username.
MIN_USERNAME == 2
MIN_PASSWORD == 6
MAX_USERNAME == 32

\* The salts bcrypt.hash may draw.
Salts == {"x"}

(* ------------------------------ bcrypt -------------------------------- *)

\* The digest of one password character: letters are rotated by 13.
DigestChar(c) ==
  IF LowerChar(c) \in LowerSet
    THEN LET i == CHOOSE j \in 1..26 : LowerChars[j] = LowerChar(c)
         IN  LowerChars[((i + 12) % 26) + 1]
    ELSE c

bcryptPrefix == <<"$", "2", "b", "$", "1", "0", "$">>

\* The stored hash names the algorithm, cost and salt, then the digest.
bcryptHash(password, salt) ==
  bcryptPrefix \o <<salt>> \o [i \in 1..Len(password) |-> DigestChar(password[i])]

\* bcrypt.compare re-hashes the password with the salt the hash carries.
bcryptCompareAny(password, hash) == TRUE
bcryptCompare(password, hash) ==
  /\ Len(hash) > Len(bcryptPrefix)
  /\ hash = bcryptHash(password, hash[Len(bcryptPrefix) + 1])

(* ------------------------------- state -------------------------------- *)

VARIABLES
  usersFile,   \* data/users.json: [exists, data], data the parsed array
  respFile,    \* data/responses.json
  loginsFile,  \* data/logins.json
  localStore,  \* the browser's localStorage: the two keys of recopilacion.js
  boot,        \* where ensureDataFiles is: [f, pc], f the file it is at
  fetches,     \* slot -> the upstream calls of its request and how they ended
  session,     \* express-session store: session id -> userId, 0 when unset
  clock,       \* Date.now()
  alive,       \* FALSE once a rejection escaped a handler
  req,         \* the requests being served: slot -> its handler's state
  registered,  \* history: lower-cased usernames whose register returned ok
  inputs       \* the name of what the clients send (see Sent), fixed

vars == <<usersFile, respFile, loginsFile, localStore, boot, fetches, session,
          clock, alive, req, registered, inputs>>

NoResponse == [status |-> 0]
Idle ==
  [op |-> "none", pc |-> "done", sid |-> "s1", body |-> JObject({}),
   arr |-> <<>>, read |-> <<>>, resp |-> NoResponse]

EmptyFile == [exists |-> TRUE, data |-> <<>>]
NoItem == [exists |-> FALSE, data |-> <<>>]

(* ------------------------- readJson / writeJson ----------------------- *)

\* Array.prototype.find / findIndex, given which elements pass the test: the
\* first index that does, 0 for JavaScript's undefined / -1.
FirstIndex(passes) ==
  IF \E i \in 1..Len(passes) : passes[i]
    THEN CHOOSE i \in 1..Len(passes) :
           passes[i] /\ \A j \in 1..(i - 1) : ~passes[j]
    ELSE 0

\* readJson rejects when the file cannot be read.
readJsonFails(file) == ~file.exists
readJson(file) == file.data
\* A record goes through JSON.stringify: of a User or a LoginRecord the one
\* field that holds a request's value as it came, of a survey response all.
written(record) ==
  IF "t" \in DOMAIN record THEN throughJSON(record)
  ELSE [f \in DOMAIN record |->
          IF f = "avatarUrl" THEN throughJSON(record[f]) ELSE record[f]]
writeJsonMerging(obj) ==
  LET Mine(u) == \E i \in 1..Len(obj) : obj[i].id = u.id /\ obj[i].username = u.username
      others == SelectSeq(usersFile.data, LAMBDA u : ~Mine(u))
  IN  [exists |-> TRUE, data |-> others \o [i \in 1..Len(obj) |-> written(obj[i])]]
writeJson(obj) ==
  [exists |-> TRUE, data |-> [i \in 1..Len(obj) |-> written(obj[i])]]

\* A handler's slot r once it has answered: its locals are gone.
Answered(r, op, resp) ==
  [req EXCEPT ![r] = [op |-> op, pc |-> "done", sid |-> "s1", body |-> JObject({}),
                      arr |-> <<>>, read |-> <<>>, resp |-> resp]]
\* A handler's slot r suspended at an await: arr is the array it holds.
Awaiting(r, op, pc, sid, body, arr) ==
  [req EXCEPT ![r] = [op |-> op, pc |-> pc, sid |-> sid, body |-> body,
                      arr |-> arr, read |-> <<>>, resp |-> NoResponse]]
\* The same, of a writer of the Users collection: read is history, the array
\* as readJson returned it.
AwaitingUsers(r, op, pc, sid, body, arr, read) ==
  [Awaiting(r, op, pc, sid, body, arr) EXCEPT ![r].read = read]

Free(r) == req[r].pc = "done"

\* authLimiter (express-rate-limit, keyed by client address) answers 429 to a
\* request that exceeds max in the current window.  Its counters live in the
\* library; a request arrives with the verdict `limited` the limiter reaches.
TooMany == [status |-> 429, error |-> "Demasiados intentos. Intenta mas tarde."]
Internal == [status |-> 500, error |-> "Error interno"]

(* --------------------------- POST /api/register ----------------------- *)

bodyUsername(body) == trim(String(OrElse(Get(body, "username"), JString(<<>>))))
bodyPassword(body) == String(OrElse(Get(body, "password"), JString(<<>>)))

\* /^[A-Za-z0-9_-]{2,32}$/
UsernameChars == UpperSet \cup LowerSet \cup Range(DigitChars) \cup {"_", "-"}
usernamePattern(username) ==
  /\ \A i \in 1..Len(username) : username[i] \in UsernameChars
  /\ Len(username) >= MIN_USERNAME
  /\ Len(username) <= MAX_USERNAME

\* The 400 answer of register's validation, NoResponse when the input passes.
registerValidationUnmatched(username, password) ==
  IF username = <<>> \/ Len(username) < MIN_USERNAME
    THEN [status |-> 400, error |-> "Nombre de usuario invalido"]
  ELSE IF password = <<>> \/ Len(password) < MIN_PASSWORD
    THEN [status |-> 400, error |-> "La contrasena debe tener al menos 6 caracteres"]
  ELSE NoResponse
registerValidation(username, password) ==
  IF username = <<>> \/ Len(username) < MIN_USERNAME
    THEN [status |-> 400, error |-> "Nombre de usuario invalido"]
  ELSE IF password = <<>> \/ Len(password) < MIN_PASSWORD
    THEN [status |-> 400, error |-> "La contrasena debe tener al menos 6 caracteres"]
  ELSE IF ~usernamePattern(username)
    THEN [status |-> 400, error |-> "Usuario solo letras/numeros/_- permitidos"]
  ELSE NoResponse

\* users.find(u => u.username.toLowerCase() === username.toLowerCase())
findByUsernameExact(users, username) ==
  FirstIndex([i \in 1..Len(users) |-> users[i].username = username])
findByUsername(users, username) ==
  FirstIndex([i \in 1..Len(users) |->
                toLowerCase(users[i].username) = toLowerCase(username)])

newUser(username, hash, now) ==
  [id |-> now, username |-> username, passwordHash |-> hash,
   avatarUrl |-> JString(<<>>), createdAt |-> toISOString(now)]

Conflict == [status |-> 409, error |-> "Usuario ya existe"]

\* What register answers before it hashes, NoResponse when it goes on:
\* the limiter, validation, readJson and the duplicate check.
registerEarlyUnchecked(body, limited) ==
  LET invalid == registerValidation(bodyUsername(body), bodyPassword(body))
  IN  IF limited THEN TooMany
      ELSE IF invalid # NoResponse THEN invalid
      ELSE IF readJsonFails(usersFile) THEN Internal
      ELSE NoResponse
registerEarly(body, limited) ==
  LET username == bodyUsername(body)
      password == bodyPassword(body)
      invalid == registerValidation(username, password)
  IN  IF limited THEN TooMany
      ELSE IF invalid # NoResponse THEN invalid
      ELSE IF readJsonFails(usersFile) THEN Internal
      ELSE IF findByUsername(readJson(usersFile), username) # 0 THEN Conflict
      ELSE NoResponse

RegisterRead(r, sid, body, limited) ==
  /\ alive /\ Free(r)
  /\ Len(usersFile.data) < MaxLen
  /\ LET early == registerEarly(body, limited)
     IN  req' = IF early # NoResponse
                  THEN Answered(r, "register", early)
                  ELSE AwaitingUsers(r, "register", "hash", sid, body,
                                     readJson(usersFile), readJson(usersFile))
  /\ UNCHANGED <<fetches, boot, localStore, usersFile, respFile, loginsFile, session, clock, alive,
                 registered, inputs>>

\* bcrypt.hash resolves: the new user is pushed and writeJson is called.
RegisterHash(r, salt) ==
  /\ alive
  /\ req[r].op = "register" /\ req[r].pc = "hash"
  /\ LET hash == bcryptHash(bodyPassword(req[r].body), salt)
         user == newUser(bodyUsername(req[r].body), hash, clock)
     IN  req' = AwaitingUsers(r, "register", "write", req[r].sid, JObject({}),
                              Append(req[r].arr, user), req[r].read)
  /\ UNCHANGED <<fetches, boot, localStore, usersFile, respFile, loginsFile, session, clock, alive,
                 registered, inputs>>

\* res.json({ ok: true, username: newUser.username, id: newUser.id })
registerAnswerFailing(user) == Internal
registerAnswer(user) ==
  [status |-> 200, ok |-> TRUE, username |-> user.username, id |-> user.id]

\* writeJson resolves: the session gets the new id and the handler answers.
RegisterWrite(r) ==
  /\ alive
  /\ req[r].op = "register" /\ req[r].pc = "write"
  /\ LET user == req[r].arr[Len(req[r].arr)]
     IN  /\ usersFile' = writeJson(req[r].arr)
         /\ session' = [session EXCEPT ![req[r].sid] = user.id]
         /\ req' = Answered(r, "register", registerAnswer(user))
         /\ registered' = registered \cup {toLowerCase(user.username)}
  /\ UNCHANGED <<fetches, boot, localStore, respFile, loginsFile, clock, alive, inputs>>

(* ----------------------------- POST /api/login ------------------------ *)

Invalid == [status |-> 401, error |-> "Usuario/contrasena invalidos"]

Incomplete == [status |-> 400, error |-> "Credenciales incompletas"]

\* What login answers before it compares, NoResponse when it goes on:
\* the limiter, the completeness check, readJson and the lookup.
loginEarly(body, limited) ==
  LET username == bodyUsername(body)
      password == bodyPassword(body)
  IN  IF limited THEN TooMany
      ELSE IF username = <<>> \/ password = <<>> THEN Incomplete
      ELSE IF readJsonFails(usersFile) THEN Internal
      ELSE IF findByUsername(readJson(usersFile), username) = 0 THEN Invalid
      ELSE NoResponse

LoginRead(r, sid, body, limited) ==
  /\ alive /\ Free(r)
  /\ LET early == loginEarly(body, limited)
     IN  req' = IF early # NoResponse
                  THEN Answered(r, "login", early)
                  ELSE Awaiting(r, "login", "compare", sid, body,
                                readJson(usersFile))
  /\ UNCHANGED <<fetches, boot, localStore, usersFile, respFile, loginsFile, session, clock, alive,
                 registered, inputs>>

\* What login answers with once bcrypt.compare has resolved.
loginAnswerAsTyped(user, username, ok) ==
  IF ~ok THEN Invalid
  ELSE [status |-> 200, ok |-> TRUE, username |-> username, id |-> user.id,
        avatarUrl |-> OrElse(user.avatarUrl, JString(<<>>))]
loginAnswer(user, username, ok) ==
  IF ~ok THEN Invalid
  ELSE [status |-> 200, ok |-> TRUE, username |-> user.username, id |-> user.id,
        avatarUrl |-> OrElse(user.avatarUrl, JString(<<>>))]

\* bcrypt.compare resolves: on a match the session gets the user's id.  The
\* answered slot keeps, as history, the session and the credentials sent.
LoginCompare(r) ==
  /\ alive
  /\ req[r].op = "login" /\ req[r].pc = "compare"
  /\ LET username == bodyUsername(req[r].body)
         user == req[r].arr[findByUsername(req[r].arr, username)]
         ok == bcryptCompare(bodyPassword(req[r].body), user.passwordHash)
     IN  /\ session' = IF ok THEN [session EXCEPT ![req[r].sid] = user.id]
                             ELSE session
         /\ req' = [Answered(r, "login", loginAnswer(user, username, ok))
                      EXCEPT ![r].sid = req[r].sid, ![r].body = req[r].body]
  /\ UNCHANGED <<fetches, boot, localStore, usersFile, respFile, loginsFile, clock, alive,
                 registered, inputs>>

(* ------------------- POST /api/logout, GET /api/me -------------------- *)

Ok == [status |-> 200, ok |-> TRUE]

\* req.session.destroy
destroyNothing(sessions, sid) == sessions
destroy(sessions, sid) == [sessions EXCEPT ![sid] = 0]

\* The answered slot keeps the name of the session that was destroyed.
Logout(r, sid) ==
  /\ alive /\ Free(r)
  /\ session' = destroy(session, sid)
  /\ req' = [Answered(r, "logout", Ok) EXCEPT ![r].sid = sid]
  /\ UNCHANGED <<fetches, boot, localStore, usersFile, respFile, loginsFile, clock, alive,
                 registered, inputs>>

\* users.find(u => u.id === req.session.userId)
findById(users, userId) ==
  FirstIndex([i \in 1..Len(users) |-> users[i].id = userId])

NotLogged == [status |-> 200, logged |-> FALSE]

meAnswerWhole(users, userId) ==
  IF userId = 0 \/ findById(users, userId) = 0 THEN NotLogged
  ELSE LET user == users[findById(users, userId)]
       IN  [status |-> 200, logged |-> TRUE, username |-> user.username,
            avatarUrl |-> OrElse(user.avatarUrl, JString(<<>>)),
            passwordHash |-> user.passwordHash]
meAnswer(users, userId) ==
  IF userId = 0 \/ findById(users, userId) = 0 THEN NotLogged
  ELSE LET user == users[findById(users, userId)]
       IN  [status |-> 200, logged |-> TRUE, username |-> user.username,
            avatarUrl |-> OrElse(user.avatarUrl, JString(<<>>))]

\* What becomes of a rejection that escapes an async handler depends on the
\* versions of express and node the server runs on: the request is left
\* without an answer, or the process exits on the unhandled rejection, or
\* express passes it to its default error handler, which answers 500 with a
\* page that is no JSON.
DefaultHandler == [status |-> 500, page |-> "Internal Server Error"]
Escaped ==
  {[alive |-> TRUE, resp |-> NoResponse],
   [alive |-> FALSE, resp |-> NoResponse],
   [alive |-> TRUE, resp |-> DefaultHandler]}

\* No try/catch here: a rejected readJson escapes the handler.
Me(r, sid) ==
  /\ alive /\ Free(r)
  /\ IF session[sid] # 0 /\ readJsonFails(usersFile)
       THEN \E e \in Escaped :
              /\ alive' = e.alive
              /\ req' = Answered(r, "me", e.resp)
       ELSE /\ alive' = alive
            /\ req' = Answered(r, "me", meAnswer(readJson(usersFile), session[sid]))
  /\ UNCHANGED <<fetches, boot, localStore, usersFile, respFile, loginsFile, session, clock,
                 registered, inputs>>

(* --------------------------- POST /api/me/avatar ---------------------- *)

\* users[idx].avatarUrl = avatarUrl || ''
setAvatarAlone(users, idx, avatarUrl) ==
  <<[users[idx] EXCEPT !.avatarUrl = OrElse(avatarUrl, JString(<<>>))]>>
setAvatar(users, idx, avatarUrl) ==
  [users EXCEPT ![idx].avatarUrl = OrElse(avatarUrl, JString(<<>>))]

AvatarRead(r, sid, body) ==
  /\ alive /\ Free(r)
  /\ IF session[sid] = 0
       THEN /\ req' = Answered(r, "avatar",
                               [status |-> 401, error |-> "No autenticado"])
            /\ alive' = alive
     ELSE IF readJsonFails(usersFile)
       THEN \E e \in Escaped :
              /\ alive' = e.alive
              /\ req' = Answered(r, "avatar", e.resp)
     ELSE LET users == readJson(usersFile)
              idx == findById(users, session[sid])
          IN  /\ alive' = alive
              /\ req' =
                   IF idx = 0
                     THEN Answered(r, "avatar",
                                   [status |-> 404, error |-> "Usuario no encontrado"])
                     ELSE AwaitingUsers(r, "avatar", "write", sid, JObject({}),
                                        setAvatar(users, idx, Get(body, "avatarUrl")),
                                        users)
  /\ UNCHANGED <<fetches, boot, localStore, usersFile, respFile, loginsFile, session, clock,
                 registered, inputs>>

AvatarWrite(r) ==
  /\ alive
  /\ req[r].op = "avatar" /\ req[r].pc = "write"
  /\ usersFile' = writeJson(req[r].arr)
  /\ req' = Answered(r, "avatar", Ok)
  /\ UNCHANGED <<fetches, boot, localStore, respFile, loginsFile, session, clock, alive, registered, inputs>>

(* ------------------------- POST /api/saveResponse --------------------- *)

\* body = req.body || {}; body.timestamp = new Date().toISOString()
stamp(body, now) ==
  SetMember(OrElse(body, JObject({})), "timestamp", JString(toISOString(now)))

SaveResponseRead(r, body) ==
  /\ alive /\ Free(r)
  /\ Len(respFile.data) < MaxLen
  /\ req' = IF readJsonFails(respFile)
              THEN Answered(r, "saveResponse", Internal)
              ELSE Awaiting(r, "saveResponse", "write", "s1", JObject({}),
                            Append(readJson(respFile), stamp(body, clock)))
  /\ UNCHANGED <<fetches, boot, usersFile, respFile, loginsFile, localStore, session, clock,
                 alive, registered, inputs>>

SaveResponseWrite(r) ==
  /\ alive
  /\ req[r].op = "saveResponse" /\ req[r].pc = "write"
  /\ respFile' = writeJson(req[r].arr)
  /\ req' = Answered(r, "saveResponse", Ok)
  /\ UNCHANGED <<fetches, boot, usersFile, loginsFile, localStore, session, clock, alive,
                 registered, inputs>>

(* --------------------------- POST /api/saveLogin ---------------------- *)

\* const { username, avatarUrl } = req.body || {}; the entry is built of the
\* two and the time.
loginEntry(body, now) ==
  LET b == OrElse(body, JObject({}))
  IN  [username |-> trim(String(OrElse(Get(b, "username"), JString(<<>>)))),
       avatarUrl |-> OrElse(Get(b, "avatarUrl"), JString(<<>>)),
       timestamp |-> toISOString(now)]

SaveLoginRead(r, body) ==
  /\ alive /\ Free(r)
  /\ Len(loginsFile.data) < MaxLen
  /\ req' = IF readJsonFails(loginsFile)
              THEN Answered(r, "saveLogin", Internal)
              ELSE Awaiting(r, "saveLogin", "write", "s1", JObject({}),
                            Append(readJson(loginsFile), loginEntry(body, clock)))
  /\ UNCHANGED <<fetches, boot, usersFile, respFile, loginsFile, localStore, session, clock,
                 alive, registered, inputs>>

SaveLoginWrite(r) ==
  /\ alive
  /\ req[r].op = "saveLogin" /\ req[r].pc = "write"
  /\ loginsFile' = writeJson(req[r].arr)
  /\ req' = Answered(r, "saveLogin", Ok)
  /\ UNCHANGED <<fetches, boot, usersFile, respFile, localStore, session, clock, alive,
                 registered, inputs>>

(* ---------------------------- GET /api/download ----------------------- *)

DownloadResponses(r) ==
  /\ alive /\ Free(r)
  /\ req' = IF readJsonFails(respFile)
              THEN Answered(r, "download", Internal)
              ELSE Awaiting(r, "download", "logins", "s1", JObject({}),
                            readJson(respFile))
  /\ UNCHANGED <<fetches, boot, usersFile, respFile, loginsFile, localStore, session, clock,
                 alive, registered, inputs>>

DownloadLogins(r) ==
  /\ alive
  /\ req[r].op = "download" /\ req[r].pc = "logins"
  /\ req' = IF readJsonFails(loginsFile)
              THEN Answered(r, "download", Internal)
              ELSE Answered(r, "download",
                            [status |-> 200, responses |-> req[r].arr,
                             logins |-> readJson(loginsFile)])
  /\ UNCHANGED <<fetches, boot, usersFile, respFile, loginsFile, localStore, session, clock,
                 alive, registered, inputs>>

(* ------------------- recopilacion.js, in the browser ------------------ *)

\* const raw = localStorage.getItem(key); return raw ? JSON.parse(raw) : []
readArray(item) == IF item.exists THEN item.data ELSE <<>>
\* localStorage.setItem(key, JSON.stringify(arr, null, 2))
writeArray(arr) == writeJson(arr)

demo_user == <<"d", "e", "m", "o", "_", "u", "s", "e", "r">>
note == <<"D", "e", "m", "o", " ", "o", "n", "l", "y", " ", "-", " ", " ",
          "p", "a", "s", "s", "w", "o", "r", "d", "s", " ",
          "c", "o", "l", "l", "e", "c", "t", "e", "d">>

\* The record recopilacionSaveLogin keeps of loginObj.
safe(loginObj, now) ==
  JObject({<<"username", OrElse(Get(loginObj, "username"), JString(demo_user))>>,
           <<"avatarUrl", OrElse(Get(loginObj, "avatarUrl"), JString(<<>>))>>,
           <<"timestamp", OrElse(Get(loginObj, "timestamp"),
                                 JString(toISOString(now)))>>,
           <<"note", JString(note)>>})

recopilacionSaveLogin(loginObj) ==
  /\ Len(localStore.logins.data) < MaxLen
  /\ localStore' =
       [localStore EXCEPT
          !.logins = writeArray(Append(readArray(@), safe(loginObj, clock)))]
  /\ UNCHANGED <<fetches, boot, usersFile, respFile, loginsFile, session, clock, alive, req,
                 registered, inputs>>

recopilacionSaveResponse(responseObj) ==
  /\ Len(localStore.responses.data) < MaxLen
  /\ localStore' =
       [localStore EXCEPT
          !.responses = writeArray(Append(readArray(@), responseObj))]
  /\ UNCHANGED <<fetches, boot, usersFile, respFile, loginsFile, session, clock, alive, req,
                 registered, inputs>>

recopilacionGetAll ==
  [responses |-> readArray(localStore.responses),
   logins |-> readArray(localStore.logins)]

\* localStorage.removeItem of both keys.
recopilacionClear ==
  /\ localStore.responses.exists \/ localStore.logins.exists
  /\ localStore' = [responses |-> NoItem, logins |-> NoItem]
  /\ UNCHANGED <<fetches, boot, usersFile, respFile, loginsFile, session, clock, alive, req,
                 registered, inputs>>

(* ------------------------ GET /api/avatar/:username ------------------ *)

\* How a call of the Roblox API can end: fetch rejects, the answer is not
\* ok, its body is no JSON, it is JSON without what is asked for, or with it.
IdResults == {"rejected", "not ok", "no json", "no id", "id"}
ThumbResults == {"rejected", "not ok", "no json", "no image", "image"}

\* What the handler answers once the id lookup has ended, NoResponse when
\* it goes on to ask for the thumbnail.
lookupAnswerLenient(result) ==
  CASE result = "not ok" -> [status |-> 502, error |-> "Error consultando Roblox"]
    [] result \in {"no id", "id"} -> NoResponse
    [] OTHER -> Internal
lookupAnswer(result) ==
  CASE result = "not ok" -> [status |-> 502, error |-> "Error consultando Roblox"]
    [] result = "no id" -> [status |-> 404, error |-> "Usuario Roblox no encontrado"]
    [] result = "id" -> NoResponse
    [] OTHER -> Internal

\* What the handler answers once the thumbnail call has ended.
thumbAnswer(result) ==
  CASE result = "not ok" -> [status |-> 502, error |-> "No se pudo obtener miniatura"]
    [] result = "no image" -> [status |-> 404, error |-> "Sin imagen"]
    [] result = "image" -> [status |-> 200, imageUrl |-> <<"i">>]
    [] OTHER -> Internal

\* The request comes in: without a username it is answered at once, else
\* the id lookup is sent.
ProxyStart(r, username) ==
  /\ alive /\ Free(r)
  /\ IF trim(username) = <<>>
       THEN /\ req' = Answered(r, "proxy", [status |-> 400, error |-> "Falta username"])
            /\ fetches' = [fetches EXCEPT ![r] = <<>>]
       ELSE /\ req' = Awaiting(r, "proxy", "lookup", "s1", JObject({}), <<>>)
            /\ fetches' = [fetches EXCEPT ![r] = <<[call |-> "lookup", result |-> "pending"]>>]
  /\ UNCHANGED <<usersFile, respFile, loginsFile, localStore, boot, session, clock,
                 alive, registered, inputs>>

\* The id lookup ends: the handler answers, or sends the thumbnail call.
ProxyLookup(r, result) ==
  /\ alive
  /\ req[r].op = "proxy" /\ req[r].pc = "lookup"
  /\ LET ended == [fetches[r] EXCEPT ![Len(fetches[r])].result = result]
     IN  IF lookupAnswer(result) # NoResponse
           THEN /\ req' = Answered(r, "proxy", lookupAnswer(result))
                /\ fetches' = [fetches EXCEPT ![r] = ended]
           ELSE /\ req' = Awaiting(r, "proxy", "thumb", "s1", JObject({}), <<>>)
                /\ fetches' =
                     [fetches EXCEPT
                        ![r] = Append(ended, [call |-> "thumb", result |-> "pending"])]
  /\ UNCHANGED <<usersFile, respFile, loginsFile, localStore, boot, session, clock,
                 alive, registered, inputs>>

\* The thumbnail call ends and the handler answers.
ProxyThumb(r, result) ==
  /\ alive
  /\ req[r].op = "proxy" /\ req[r].pc = "thumb"
  /\ req' = Answered(r, "proxy", thumbAnswer(result))
  /\ fetches' = [fetches EXCEPT ![r] = [@ EXCEPT ![Len(@)].result = result]]
  /\ UNCHANGED <<usersFile, respFile, loginsFile, localStore, boot, session, clock,
                 alive, registered, inputs>>

(* ---------------------------- ensureDataFiles ------------------------- *)

\* for (const f of [USERS_FILE, RESP_FILE, LOGINS_FILE]), in this order.
DataFiles == <<"users", "responses", "logins">>
Booted == [f |-> Len(DataFiles) + 1, pc |-> "access"]
NoFile == [exists |-> FALSE, data |-> <<>>]

FileOf(name) ==
  CASE name = "users" -> usersFile
    [] name = "responses" -> respFile
    [] name = "logins" -> loginsFile

\* await fs.access(f): on to the next file when f is there.
EnsureAccess ==
  /\ alive
  /\ boot.f <= Len(DataFiles) /\ boot.pc = "access"
  /\ boot' = IF FileOf(DataFiles[boot.f]).exists
               THEN [f |-> boot.f + 1, pc |-> "access"]
               ELSE [f |-> boot.f, pc |-> "write"]
  /\ UNCHANGED <<fetches, usersFile, respFile, loginsFile, localStore, session, clock,
                 alive, req, registered, inputs>>

\* await fs.writeFile(f, '[]', 'utf8')
EnsureWrite ==
  /\ alive
  /\ boot.f <= Len(DataFiles) /\ boot.pc = "write"
  /\ usersFile' = IF DataFiles[boot.f] = "users" THEN EmptyFile ELSE usersFile
  /\ respFile' = IF DataFiles[boot.f] = "responses" THEN EmptyFile ELSE respFile
  /\ loginsFile' = IF DataFiles[boot.f] = "logins" THEN EmptyFile ELSE loginsFile
  /\ boot' = [f |-> boot.f + 1, pc |-> "access"]
  /\ UNCHANGED <<fetches, localStore, session, clock, alive, req, registered, inputs>>

\* data/users.json is removed from the disk while the server runs.
Unlink ==
  /\ usersFile.exists
  /\ usersFile' = NoFile
  /\ UNCHANGED <<fetches, respFile, loginsFile, localStore, boot, session, clock, alive,
                 req, registered, inputs>>

(* ------------------------------ environment --------------------------- *)

\* Time passes.
Tick ==
  /\ clock < MaxClock
  /\ clock' = clock + 1
  /\ UNCHANGED <<fetches, boot, localStore, usersFile, respFile, loginsFile, session, alive, req,
                 registered, inputs>>

\* The session cookie's maxAge (24 h) runs out.
Expire(sid) ==
  /\ session[sid] # 0
  /\ session' = [session EXCEPT ![sid] = 0]
  /\ UNCHANGED <<fetches, boot, localStore, usersFile, respFile, loginsFile, clock, alive, req,
                 registered, inputs>>

(* -------------------------------- inputs ------------------------------ *)

An == <<"A", "n">>
an == <<"a", "n">>
bo == <<"b", "o">>
secret == <<"s", "e", "c", "r", "e", "t">>
hunter == <<"h", "u", "n", "t", "e", "r">>

AuthBody(u, p) == JObject({<<"username", u>>, <<"password", p>>})
AvatarBody(url) == JObject({<<"avatarUrl", url>>})

\* Requests one after another, from two browsers: three names, two of them
\* differing in case only, a blank name and two passwords.
Sequential ==
  [sessions |-> {"s1", "s2"},
   auth |-> {AuthBody(JString(An), JString(secret)),
             AuthBody(JString(an), JString(secret)),
             AuthBody(JString(an), JString(hunter)),
             AuthBody(JString(bo), JString(hunter)),
             AuthBody(JString(<<" ">>), JString(secret))},
   avatar |-> {JObject({}), AvatarBody(JString(<<"u">>))}]

\* Overlapping requests: two names that differ in case and a third.
Concurrent ==
  [sessions |-> {"s1"},
   auth |-> {AuthBody(JString(u), JString(secret)) : u \in {An, an, bo}},
   avatar |-> {AvatarBody(JString(<<"u">>))}]

\* One account, and payloads that repeat its password to the two collecting
\* endpoints, at top level and nested.
Collecting ==
  [sessions |-> {"s1"},
   auth |-> {AuthBody(JString(An), JString(secret))},
   responses |-> {JObject({<<"answer", JString(secret)>>}),
                  JObject({<<"q1", JString(<<"y">>)>>})},
   logins |-> {JObject({<<"username", JString(An)>>,
                        <<"password", JString(secret)>>}),
               JObject({<<"username", JString(secret)>>})}]

\* Login-audit payloads, to the server and to the browser's store: plain,
\* with a password beside the fields, and with one inside them.
Audit ==
  [logins |-> {JObject({<<"username", JString(An)>>,
                        <<"avatarUrl", JString(<<"u">>)>>}),
               JObject({<<"username", JString(An)>>,
                        <<"password", JString(secret)>>,
                        <<"passwordHash", JString(bcryptHash(secret, "x"))>>}),
               JObject({<<"username", JObject({<<"password", JString(secret)>>})>>,
                        <<"avatarUrl", JObject({<<"passwordHash", JString(secret)>>})>>})}]

\* Survey payloads: an object, one that brings its own timestamp, an array.
Survey ==
  [responses |-> {JObject({<<"q1", JString(<<"y">>)>>}),
                  JObject({<<"q1", JString(<<"n">>)>>,
                           <<"timestamp", JString(<<"T", "0", "Z">>)>>}),
                  JArray(<<JString(<<"y">>)>>, {})}]

\* Register requests at and beyond the limits of validation: a name of one
\* character, one with a character outside the pattern, one of 33
\* characters, a number for a name, a password of five characters, no
\* password.
LongName == [i \in 1..(MAX_USERNAME + 1) |-> "a"]
Validating ==
  [sessions |-> {"s1"},
   auth |-> {AuthBody(JString(An), JString(secret)),
             AuthBody(JString(<<"a">>), JString(secret)),
             AuthBody(JString(<<"a", "!">>), JString(secret)),
             AuthBody(JString(<<"a", " ", "b">>), JString(secret)),
             AuthBody(JString(LongName), JString(secret)),
             AuthBody(JNumber(42), JString(hunter)),
             AuthBody(JString(<<" ", "b", "o", " ">>), JString(hunter)),
             AuthBody(JString(bo), JString(<<"s", "e", "c", "r", "e">>)),
             JObject({<<"username", JString(bo)>>})}]

\* One browser that uses every endpoint that answers with stored data.
Exporting ==
  [sessions |-> {"s1"},
   auth |-> {AuthBody(JString(An), JString(secret)),
             AuthBody(JString(an), JString(hunter)),
             AuthBody(JString(<<" ">>), JString(secret))},
   avatar |-> {AvatarBody(JString(<<"u">>))},
   responses |-> {JObject({<<"q1", JString(<<"y">>)>>})},
   logins |-> {JObject({<<"username", JString(An)>>,
                        <<"avatarUrl", JString(<<"u">>)>>})}]

\* Names asked of the avatar proxy, one of them blank.
Proxied == [names |-> {An, <<" ">>}]

\* One browser and one account, from the moment the server starts.
Starting ==
  [sessions |-> {"s1"},
   auth |-> {AuthBody(JString(An), JString(secret))},
   avatar |-> {AvatarBody(JString(<<"u">>))}]

Sent(world) ==
  CASE world = "sequential" -> Sequential
    [] world = "concurrent" -> Concurrent
    [] world = "collecting" -> Collecting
    [] world = "audit" -> Audit
    [] world = "survey" -> Survey
    [] world = "starting" -> Starting
    [] world = "proxied" -> Proxied
    [] world = "exporting" -> Exporting
    [] world = "validating" -> Validating

Browsers(world) ==
  IF "sessions" \in DOMAIN Sent(world) THEN Sent(world).sessions ELSE {}

\* The server with its data files in place, serving the requests the clients
\* of `world` send, at most as many at a time as there are slots.
InitWith(slots, world) ==
  /\ inputs = world
  /\ usersFile = EmptyFile
  /\ respFile = EmptyFile
  /\ loginsFile = EmptyFile
  /\ localStore = [responses |-> NoItem, logins |-> NoItem]
  /\ boot = Booted
  /\ fetches = [r \in slots |-> <<>>]
  /\ session = [s \in Browsers(world) |-> 0]
  /\ clock = 1
  /\ alive = TRUE
  /\ req = [r \in slots |-> Idle]
  /\ registered = {}


Init == InitWith({1}, "sequential")
InitConcurrent == InitWith({1, 2}, "concurrent")
InitCollecting == InitWith({1}, "collecting")
InitAudit == InitWith({1}, "audit")
InitSurvey == InitWith({1}, "survey")
InitProxied == InitWith({1, 2}, "proxied")
InitExporting == InitWith({1}, "exporting")
InitValidating == InitWith({1}, "validating")
\* The server starts in a directory without data files: ensureDataFiles has
\* been called and app.listen too.
InitStarting ==
  /\ inputs = "starting"
  /\ usersFile = NoFile /\ respFile = NoFile /\ loginsFile = NoFile
  /\ localStore = [responses |-> NoItem, logins |-> NoItem]
  /\ boot = [f |-> 1, pc |-> "access"]
  /\ fetches = [r \in {1} |-> <<>>]
  /\ session = [s \in Browsers("starting") |-> 0]
  /\ clock = 1
  /\ alive = TRUE
  /\ req = [r \in {1} |-> Idle]
  /\ registered = {}

(* ----------------------------- specification -------------------------- *)

\* The limiter answers before the handler looks at the request: one request
\* stands for all it rejects.
AnySession == CHOOSE sid \in Sent(inputs).sessions : TRUE
AnyBody == CHOOSE body \in Sent(inputs).auth : TRUE

RegisterStep ==
  \/ \E r \in DOMAIN req, sid \in Sent(inputs).sessions, body \in Sent(inputs).auth :
       RegisterRead(r, sid, body, FALSE)
  \/ \E r \in DOMAIN req : RegisterRead(r, AnySession, AnyBody, TRUE)
  \/ \E r \in DOMAIN req, salt \in Salts : RegisterHash(r, salt)
  \/ \E r \in DOMAIN req : RegisterWrite(r)

LoginStep ==
  \/ \E r \in DOMAIN req, sid \in Sent(inputs).sessions, body \in Sent(inputs).auth :
       LoginRead(r, sid, body, FALSE)
  \/ \E r \in DOMAIN req : LoginRead(r, AnySession, AnyBody, TRUE)
  \/ \E r \in DOMAIN req : LoginCompare(r)

AvatarStep ==
  \/ \E r \in DOMAIN req, sid \in Sent(inputs).sessions, body \in Sent(inputs).avatar :
       AvatarRead(r, sid, body)
  \/ \E r \in DOMAIN req : AvatarWrite(r)

Next ==
  \/ RegisterStep
  \/ LoginStep
  \/ \E r \in DOMAIN req, sid \in Sent(inputs).sessions : Logout(r, sid)
  \/ \E r \in DOMAIN req, sid \in Sent(inputs).sessions : Me(r, sid)
  \/ AvatarStep
  \/ Tick
  \/ \E sid \in Sent(inputs).sessions : Expire(sid)

\* The writers of the Users collection.
NextUsers ==
  \/ RegisterStep
  \/ AvatarStep
  \/ Tick

SaveResponseStep ==
  \/ \E r \in DOMAIN req, body \in Sent(inputs).responses : SaveResponseRead(r, body)
  \/ \E r \in DOMAIN req : SaveResponseWrite(r)

SaveLoginStep ==
  \/ \E r \in DOMAIN req, body \in Sent(inputs).logins : SaveLoginRead(r, body)
  \/ \E r \in DOMAIN req : SaveLoginWrite(r)

DownloadStep ==
  \/ \E r \in DOMAIN req : DownloadResponses(r)
  \/ \E r \in DOMAIN req : DownloadLogins(r)

\* Accounts and the two collecting endpoints.
NextCollecting ==
  \/ RegisterStep
  \/ LoginStep
  \/ SaveResponseStep
  \/ SaveLoginStep

\* The login audit, on the server and in the browser.
NextAudit ==
  \/ SaveLoginStep
  \/ \E loginObj \in Sent(inputs).logins : recopilacionSaveLogin(loginObj)
  \/ recopilacionClear
  \/ Tick

\* The survey collection and its export.
NextSurvey ==
  \/ SaveResponseStep
  \/ DownloadStep
  \/ Tick

\* The server from its start, with the file of the Users collection at risk.
NextStarting ==
  \/ EnsureAccess
  \/ EnsureWrite
  \/ Unlink
  \/ RegisterStep
  \/ LoginStep
  \/ \E r \in DOMAIN req, sid \in Sent(inputs).sessions : Me(r, sid)
  \/ AvatarStep

\* The avatar proxy, two requests at a time.
NextProxied ==
  \/ \E r \in DOMAIN req, username \in Sent(inputs).names : ProxyStart(r, username)
  \/ \E r \in DOMAIN req, result \in IdResults : ProxyLookup(r, result)
  \/ \E r \in DOMAIN req, result \in ThumbResults : ProxyThumb(r, result)

\* Registration at the limits of validation.
NextValidating ==
  \/ RegisterStep
  \/ Tick

\* Every endpoint that answers with stored data, and what fills the store.
NextExporting ==
  \/ RegisterStep
  \/ LoginStep
  \/ \E r \in DOMAIN req, sid \in Sent(inputs).sessions : Me(r, sid)
  \/ AvatarStep
  \/ SaveResponseStep
  \/ SaveLoginStep
  \/ DownloadStep

\* Requests served one after another.
Spec == Init /\ [][Next]_vars
\* Register and update-avatar requests served two at a time.
SpecUsers == InitConcurrent /\ [][NextUsers]_vars
SpecCollecting == InitCollecting /\ [][NextCollecting]_vars
SpecAudit == InitAudit /\ [][NextAudit]_vars
SpecSurvey == InitSurvey /\ [][NextSurvey]_vars
SpecStarting == InitStarting /\ [][NextStarting]_vars
SpecProxied == InitProxied /\ [][NextProxied]_vars
SpecExporting == InitExporting /\ [][NextExporting]_vars
SpecValidating == InitValidating /\ [][NextValidating]_vars

(* =============================== claims =============================== *)

Users == usersFile.data
SameName(a, b) == toLowerCase(a) = toLowerCase(b)
Registered200(r) == req[r].op = "register" /\ req[r].resp.status = 200

\* C1: in every reachable state of the Users collection, also with register
\* requests overlapping, no two User records have usernames that are equal
\* when compared without regard to case.
C1_UniqueUsernames ==
  \A i, j \in 1..Len(Users) :
    i # j => ~SameName(Users[i].username, Users[j].username)

\* Two overlapping registers of names that differ in case only have both
\* answered ok, and the collection holds one record under that name.
C1_Witness ==
  /\ \E r1, r2 \in DOMAIN req :
       /\ Registered200(r1) /\ Registered200(r2)
       /\ req[r1].resp.username # req[r2].resp.username
       /\ SameName(req[r1].resp.username, req[r2].resp.username)
  /\ \E i \in 1..Len(Users) : SameName(Users[i].username, an)
  /\ Len(Users) = 2

Names == {An, an, <<"A", "N">>, bo, <<"B", "o">>}
Blanks == {<<>>, <<" ">>, <<" ", "\t">>}
Passwords == {secret, hunter}
Credentials(u, p) == AuthBody(JString(u), JString(p))

\* The user a request's snapshot holds under the name its body carries.
Found(r) == req[r].arr[findByUsername(req[r].arr, bodyUsername(req[r].body))]
\* hash is a hash bcrypt.hash gives for password.
Derived(hash, password) == \E salt \in Salts : hash = bcryptHash(password, salt)
\* Slot r answers in this step.
Answers(r) == req[r].pc # "done" /\ req'[r].pc = "done"
\* Slot r takes and answers a request in this step.
Serves(r, op) == req[r].pc = "done" /\ req'[r] # req[r] /\ req'[r].op = op

(* C2 *)

\* C2 as stated: once a register for U has returned ok, every register for a
\* name that differs from U in case only, with any valid password, is
\* answered 409.
C2_AlwaysConflict ==
  \A u \in Names, p \in Passwords, limited \in BOOLEAN :
    toLowerCase(u) \in registered
      => registerEarly(Credentials(u, p), limited) = Conflict

\* C2: a register that the limiter admits, for a name that differs in case
\* only from the name of a record the Users collection holds, with any valid
\* password, is answered 409, and a register answered 409 leaves the
\* collection as it was.
C2_ConflictWhileStored ==
  /\ [](\A i \in 1..Len(Users) : \A u \in Names, p \in Passwords :
          SameName(u, Users[i].username)
            => registerEarly(Credentials(u, p), FALSE).status = 409)
  /\ [][\A r \in DOMAIN req :
          Serves(r, "register") /\ req'[r].resp.status = 409
            => usersFile' = usersFile]_vars

\* A register has been answered 409 after another had returned ok.
C2_Witness ==
  /\ registered # {}
  /\ \E r \in DOMAIN req : req[r].op = "register" /\ req[r].resp = Conflict

(* C5 *)

\* C5 as stated: for every stored user and every case variant of its name, a
\* login with the password it registered with is not turned away.
C5_NeverTurnedAway ==
  \A i \in 1..Len(Users) : \A u \in Names, p \in Passwords, limited \in BOOLEAN :
    SameName(u, Users[i].username) /\ Derived(Users[i].passwordHash, p)
      => loginEarly(Credentials(u, p), limited) = NoResponse

\* C5: for every stored user and every case variant of its name, a login
\* with the password it registered with that the limiter admits goes on to
\* compare the password, and then answers 200 with the username in its stored
\* casing and sets the session's userId to the user's id.
C5_LoginSucceeds ==
  /\ [](\A i \in 1..Len(Users) : \A u \in Names, p \in Passwords :
          SameName(u, Users[i].username) /\ Derived(Users[i].passwordHash, p)
            => loginEarly(Credentials(u, p), FALSE) = NoResponse)
  /\ [][\A r \in DOMAIN req :
          /\ req[r].op = "login" /\ Answers(r)
          /\ Derived(Found(r).passwordHash, bodyPassword(req[r].body))
          => /\ req'[r].resp.status = 200
             /\ req'[r].resp.username = Found(r).username
             /\ req'[r].resp.id = Found(r).id
             /\ session'[req[r].sid] = Found(r).id]_vars

\* A login under a name typed in another casing than the stored one has
\* been answered 200, and its session is the user's.
C5_Witness ==
  \E r \in DOMAIN req :
    /\ req[r].op = "login" /\ req[r].pc = "done" /\ req[r].resp.status = 200
    /\ bodyUsername(req[r].body) # req[r].resp.username
    /\ session[req[r].sid] = req[r].resp.id

(* C6 *)

\* C6 as stated: with any non-empty password, a login for a username that is
\* not in the store is answered 401 with the message of a wrong password.
C6_UnknownIs401 ==
  \A u \in Names \cup Blanks, p \in Passwords, limited \in BOOLEAN :
    findByUsername(Users, trim(u)) = 0
      => loginEarly(Credentials(u, p), limited) = Invalid

\* C6: with any non-empty password, a login that the limiter admits is
\* answered by the same 401 and message for a non-blank username that is not
\* in the store as for a stored one with a wrong password; a login the
\* limiter does not admit is answered 429 whatever the username.
C6_SameAnswer ==
  /\ [](\A u \in Names, p \in Passwords :
          /\ findByUsername(Users, u) = 0
               => loginEarly(Credentials(u, p), FALSE) = Invalid
          /\ loginEarly(Credentials(u, p), TRUE) = TooMany)
  /\ [][\A r \in DOMAIN req :
          /\ req[r].op = "login" /\ Answers(r)
          /\ ~Derived(Found(r).passwordHash, bodyPassword(req[r].body))
          => req'[r].resp = Invalid /\ session' = session]_vars

\* A login for a stored name with a wrong password has been answered.
C6_Witness ==
  \E r \in DOMAIN req :
    /\ req[r].op = "login" /\ req[r].pc = "done" /\ req[r].resp = Invalid
    /\ findByUsername(Users, bodyUsername(req[r].body)) # 0

(* C7 *)

\* C7: a session's userId becomes set only in the step in which a register or
\* a login of that session answers 200, to the id answered; it becomes unset
\* only by a logout or by expiry; a register or login that answers an error
\* changes no session; a logout answers ok and leaves the session without
\* userId, for which GET /api/me answers logged: false.
C7_SessionLifecycle ==
  /\ [][\A sid \in DOMAIN session :
          session'[sid] # session[sid] /\ session'[sid] # 0
            => \E r \in DOMAIN req :
                 /\ req[r].op \in {"register", "login"} /\ Answers(r)
                 /\ req[r].sid = sid
                 /\ req'[r].resp.status = 200
                 /\ req'[r].resp.id = session'[sid]]_vars
  /\ [][\A sid \in DOMAIN session :
          session'[sid] # session[sid] /\ session'[sid] = 0
            => \/ \E r \in DOMAIN req :
                    req'[r].op = "logout" /\ req'[r].sid = sid /\ req'[r].resp = Ok
               \/ req' = req /\ clock' = clock /\ usersFile' = usersFile]_vars
  /\ [][\A r \in DOMAIN req :
          /\ req'[r] # req[r] /\ req'[r].pc = "done"
          /\ req'[r].op \in {"register", "login"}
          /\ req'[r].resp.status # 200
          => session' = session]_vars
  /\ [][\A r \in DOMAIN req :
          Serves(r, "logout")
            => /\ req'[r].resp = Ok
               /\ session'[req'[r].sid] = 0
               /\ \A sid \in DOMAIN session \ {req'[r].sid} :
                    session'[sid] = session[sid]
               /\ meAnswer(readJson(usersFile'), session'[req'[r].sid]) = NotLogged]_vars

\* One browser has logged out and is anonymous while the other is still
\* logged in.
C7_Witness ==
  \E r \in DOMAIN req :
    /\ req[r].op = "logout" /\ req[r].resp = Ok
    /\ session[req[r].sid] = 0
    /\ findByUsername(Users, an) # 0
    /\ \E sid \in DOMAIN session : session[sid] # 0

(* C8 *)

\* What of a User never changes.
Identity(user) ==
  [id |-> user.id, username |-> user.username,
   passwordHash |-> user.passwordHash, createdAt |-> user.createdAt]
\* Every record of users is in users2 with the same id, username,
\* passwordHash and createdAt.
Kept(users, users2) ==
  \A i \in 1..Len(users) :
    \E j \in 1..Len(users2) : Identity(users2[j]) = Identity(users[i])
\* Slot r is about to write the Users collection and had read it when it
\* did not hold all the records it holds now.
Stale(r) ==
  /\ req[r].op \in {"register", "avatar"} /\ req[r].pc = "write"
  /\ ~Kept(Users, req[r].read)

\* C8 as stated: under any interleaving of register and update-avatar
\* requests, every step keeps every stored User, with its id, username,
\* passwordHash and createdAt.
C8_NeverLost == [][Kept(Users, Users')]_vars

\* C8: every step keeps every stored User with its id, username, passwordHash
\* and createdAt, but the write of a request that had read the collection
\* before one of its records was stored.
C8_KeptButByStaleWrite ==
  [][(\A r \in DOMAIN req : Answers(r) => ~Stale(r)) => Kept(Users, Users')]_vars

\* Two users are stored, one with an avatar set after it registered.
C8_Witness ==
  /\ Len(Users) = 2
  /\ \E i \in 1..Len(Users) : Users[i].avatarUrl # JString(<<>>)

(* C9 *)

\* C9 as stated: the ids of the stored users are pairwise distinct, also
\* when two registrations happen at the same clock value.
C9_DistinctIds ==
  \A i, j \in 1..Len(Users) : i # j => Users[i].id # Users[j].id

(* C3 *)

\* C3 as stated: no record of the three collections holds the cleartext of a
\* password a stored user registered with, and no passwordHash is the
\* password it was derived from.
C3_NoCleartextStored ==
  \A p \in Passwords :
    (\E i \in 1..Len(Users) : Derived(Users[i].passwordHash, p))
      => /\ \A i \in 1..Len(Users) :
              /\ Users[i].passwordHash # p
              /\ Users[i].username # p
              /\ ~HoldsString(Users[i].avatarUrl, p)
         /\ \A i \in 1..Len(respFile.data) : ~HoldsString(respFile.data[i], p)
         /\ \A i \in 1..Len(loginsFile.data) :
              /\ loginsFile.data[i].username # p
              /\ ~HoldsString(loginsFile.data[i].avatarUrl, p)

(* C4 *)

PasswordKeys == {"password", "passwordHash"}

\* C4 as stated: no LoginRecord of the logins collection, and no record
\* recopilacionSaveLogin has put in the browser's store, has a password or a
\* passwordHash field, at top level or inside its username or avatarUrl.
C4_NoPasswordField ==
  /\ \A i \in 1..Len(loginsFile.data) :
       /\ DOMAIN loginsFile.data[i] \cap PasswordKeys = {}
       /\ \A k \in PasswordKeys : ~HasKey(loginsFile.data[i].avatarUrl, k)
  /\ \A i \in 1..Len(localStore.logins.data) :
       \A k \in PasswordKeys : ~HasKey(localStore.logins.data[i], k)

(* C10 *)

\* The timestamps the server can have given so far.
ServerStamps == {JString(toISOString(t)) : t \in 1..clock}

\* C10 as stated: a saveResponse request served alone leaves the collection
\* with the records it had, unchanged and in order, followed by one more that
\* carries the server's timestamp.
C10_AppendsStamped ==
  [][\A r \in DOMAIN req :
       req[r].op = "saveResponse" /\ Answers(r) /\ req'[r].resp = Ok
         => /\ Len(respFile'.data) = Len(respFile.data) + 1
            /\ SubSeq(respFile'.data, 1, Len(respFile.data)) = respFile.data
            /\ Get(respFile'.data[Len(respFile'.data)], "timestamp") \in ServerStamps]_vars

(* C11 *)

\* Slot r writes the Users collection in this step.
WritesUsers(r) ==
  req[r].op \in {"register", "avatar"} /\ req[r].pc = "write" /\ Answers(r)

\* C11: two requests that write the same collection and overlap can lose an
\* update: a request's write answers success and leaves in the collection
\* the array the request holds and nothing else, so that every record stored
\* since it read is gone.
C11_WriteReplacesAll ==
  [][\A r \in DOMAIN req :
       WritesUsers(r)
         => /\ req'[r].resp.status = 200
            /\ Len(Users') = Len(req[r].arr)
            /\ \A i \in 1..Len(Users) :
                 (\A j \in 1..Len(req[r].arr) :
                    Identity(req[r].arr[j]) # Identity(Users[i]))
                   => \A j \in 1..Len(Users') :
                        Identity(Users'[j]) # Identity(Users[i])]_vars

\* Two overlapping registers of different names have both answered ok and
\* the collection holds one record.
C11_Witness ==
  /\ \E r1, r2 \in DOMAIN req :
       /\ Registered200(r1) /\ Registered200(r2)
       /\ ~SameName(req[r1].resp.username, req[r2].resp.username)
  /\ Len(Users) = 1

(* C12 *)

\* C12 as stated: a register that passes validation and finds the file of
\* the Users collection missing creates the file and is not answered with a
\* failure.
C12_LoadCreatesFile ==
  [][\A r \in DOMAIN req :
       /\ Serves(r, "register") /\ readJsonFails(usersFile)
       /\ req'[r].resp.status \notin {400, 429}
       => usersFile'.exists /\ req'[r].resp.status # 500]_vars

(* C13 *)

\* C13 as stated: no failure escapes a handler: the server stays up, and
\* every request that has ended has an answer with a status and an error
\* message when the status is one of failure.
C13_AllCaught ==
  /\ alive
  /\ \A r \in DOMAIN req :
       req[r].pc = "done" /\ req[r].op # "none"
         => /\ req[r].resp.status # 0
            /\ req[r].resp.status >= 400 => "error" \in DOMAIN req[r].resp

(* C14 *)

\* users2 is users but for the avatarUrl of the record at i.
OnlyAvatarAt(users, users2, i) ==
  /\ Len(users2) = Len(users)
  /\ Identity(users2[i]) = Identity(users[i])
  /\ \A j \in 1..Len(users) : j # i => users2[j] = users[j]

\* C14 as stated: an update-avatar request ends with 401 or 404 and writes
\* nothing, or else goes on to write the collection with the avatarUrl of the
\* user whose id is the session's userId set and every other record as it
\* was, and answers ok.
C14_AvatarOutcomes ==
  [][\A r \in DOMAIN req :
       /\ Serves(r, "avatar")
            => IF req'[r].pc = "done"
                 THEN /\ usersFile' = usersFile
                      /\ \/ /\ req'[r].resp.status = 401
                            /\ \E sid \in DOMAIN session : session[sid] = 0
                         \/ /\ req'[r].resp.status = 404
                            /\ \E sid \in DOMAIN session :
                                 /\ session[sid] # 0
                                 /\ findById(Users, session[sid]) = 0
                 ELSE \E i \in 1..Len(Users) :
                        /\ Users[i].id = session[req'[r].sid]
                        /\ OnlyAvatarAt(Users, req'[r].arr, i)
       /\ req[r].op = "avatar" /\ Answers(r)
            => /\ req'[r].resp = Ok
               /\ \E i \in 1..Len(Users) : OnlyAvatarAt(Users, Users', i)]_vars

(* C15 *)

\* The calls slot r's request has made, in order.
Calls(r) == [i \in 1..Len(fetches[r]) |-> fetches[r][i].call]

\* C15: a request to the avatar proxy makes the id lookup at most once and
\* the thumbnail call at most once, the thumbnail call only after the id
\* lookup has ended with an id; when the id lookup has ended otherwise the
\* request is answered with a failure, 404 when no id came, without a
\* thumbnail call; and when the thumbnail call has failed the request is
\* answered with a failure.
C15_OneCallEach ==
  \A r \in DOMAIN req :
    req[r].op = "proxy"
      => /\ Calls(r) \in {<<>>, <<"lookup">>, <<"lookup", "thumb">>}
         /\ Len(Calls(r)) = 2 => fetches[r][1].result = "id"
         /\ req[r].pc = "done" /\ Len(Calls(r)) >= 1 /\ fetches[r][1].result # "id"
              => /\ Len(Calls(r)) = 1
                 /\ req[r].resp.status >= 400
                 /\ fetches[r][1].result = "no id" => req[r].resp.status = 404
         /\ req[r].pc = "done" /\ Len(Calls(r)) = 2
              => (req[r].resp.status = 200 <=> fetches[r][2].result = "image")

\* One request has been answered 404 after an id lookup without id, another
\* with the image after both calls.
C15_Witness ==
  \E r1, r2 \in DOMAIN req :
    /\ req[r1].op = "proxy" /\ req[r1].pc = "done"
    /\ Len(fetches[r1]) = 1 /\ fetches[r1][1].result = "no id"
    /\ req[r2].op = "proxy" /\ req[r2].resp.status = 200
    /\ Len(fetches[r2]) = 2

(* C16 *)

\* [A-Za-z0-9_-]{2,32}
MatchesPattern(username) ==
  /\ Len(username) \in MIN_USERNAME..MAX_USERNAME
  /\ \A i \in 1..Len(username) : username[i] \in UsernameChars
\* The register request passes validation.
ValidRegister(body) ==
  /\ MatchesPattern(bodyUsername(body))
  /\ Len(bodyPassword(body)) >= MIN_PASSWORD

Without(resp, h) ==
  /\ "passwordHash" \notin DOMAIN resp
  /\ "username" \in DOMAIN resp => resp.username # h
  /\ "avatarUrl" \in DOMAIN resp => ~HoldsString(resp.avatarUrl, h)
  /\ "responses" \in DOMAIN resp
       => \A j \in 1..Len(resp.responses) : ~HoldsString(resp.responses[j], h)
  /\ "logins" \in DOMAIN resp
       => \A j \in 1..Len(resp.logins) :
            /\ DOMAIN resp.logins[j] = {"username", "avatarUrl", "timestamp"}
            /\ resp.logins[j].username # h
            /\ ~HoldsString(resp.logins[j].avatarUrl, h)

\* C17: no answer of register, login, /me, update-avatar or download has a
\* passwordHash field or holds the passwordHash of a stored user, and the
\* answer of download is the responses and the logins collection and
\* nothing more.
C17_NoHashAnswered ==
  \A r \in DOMAIN req :
    req[r].pc = "done"
      => /\ \A i \in 1..Len(Users) : Without(req[r].resp, Users[i].passwordHash)
         /\ "passwordHash" \notin DOMAIN req[r].resp
         /\ req[r].op = "download" /\ req[r].resp.status = 200
              => /\ DOMAIN req[r].resp = {"status", "responses", "logins"}
                 /\ req[r].resp.responses = readJson(respFile)
                 /\ req[r].resp.logins = readJson(loginsFile)

\* download has answered with a login record while a user with an avatar is
\* stored.
C17_Witness ==
  /\ \E r \in DOMAIN req :
       /\ req[r].op = "download" /\ req[r].resp.status = 200
       /\ Len(req[r].resp.logins) >= 1 /\ Len(req[r].resp.responses) >= 1
  /\ \E i \in 1..Len(Users) : Users[i].avatarUrl # JString(<<>>)

(* C18 *)

\* C18 as stated, of the step that authenticates a session: when a register
\* or a login has answered 200 for user U, what GET /api/me answers in that
\* session is logged: false or U's own username.
C18_OwnIdentity ==
  [][\A r \in DOMAIN req :
       /\ req[r].op \in {"register", "login"} /\ Answers(r)
       /\ req'[r].resp.status = 200
       => LET me == meAnswer(readJson(usersFile'), session'[req[r].sid])
          IN  me = NotLogged \/ me.username = req'[r].resp.username]_vars

(* C19 *)

Collections == <<usersFile, respFile, loginsFile>>

\* C19: the step in which a register or a login answers an error leaves the
\* three collections as they were, and so does every step of a login.
C19_ErrorsWriteNothing ==
  /\ [][\A r \in DOMAIN req :
          /\ req'[r] # req[r] /\ req'[r].pc = "done"
          /\ req'[r].op \in {"register", "login"}
          /\ req'[r].resp.status # 200
          => Collections' = Collections]_vars
  /\ [][\A r \in DOMAIN req :
          req'[r] # req[r] /\ req'[r].op = "login" => Collections' = Collections]_vars

\* With records in all three collections, a login with a wrong password for
\* a stored name has been answered 401.
C19_Witness ==
  /\ Len(Users) >= 1 /\ Len(respFile.data) >= 1 /\ Len(loginsFile.data) >= 1
  /\ \E r \in DOMAIN req :
       /\ req[r].op = "login" /\ req[r].pc = "done" /\ req[r].resp = Invalid
       /\ findByUsername(Users, bodyUsername(req[r].body)) # 0

====
